---- MODULE Spec2Model ----
(***************************************************************************)
(* Model of job_scraper.py: scrape_job -> extract_job_description ->       *)
(* extract_job_description_basic -> save_job_description.                  *)
(*                                                                         *)
(* A text is a sequence of characters; a character is a one-character      *)
(* string, except the two code points that have no ASCII spelling, which   *)
(* are written by their code point names (DotI, CombDot).  A parsed        *)
(* document is a sequence of element nodes in document (pre-)order, each   *)
(* with its tag, its class tokens, its id, its parent (0 is the soup       *)
(* itself) and the string it directly contains.                            *)
(***************************************************************************)
EXTENDS Integers, Sequences, FiniteSets, TLC

----------------------------------------------------------------------------
(* Characters and the str methods the scraper calls. *)

NL == "\n"

\* U+0130 LATIN CAPITAL LETTER I WITH DOT ABOVE; str.lower() maps it to the
\* two code points "i" U+0307.
DotI == "U+0130"

CombDot == "U+0307"

\* The characters str.strip() removes (those of them the model's texts use).
Whitespace == {" ", "\t", "\r", NL}

Min(a, b) == IF a < b THEN a ELSE b

\* n copies of the character c.
Rep(c, n) == [i \in 1..n |-> c]

\* s[:k]
Take(s, k) == SubSeq(s, 1, Min(k, Len(s)))

RECURSIVE SkipLeft(_, _)
\* The first position from i on that holds no whitespace (Len(s) + 1 if none).
SkipLeft(s, i) ==
    IF i > Len(s) \/ s[i] \notin Whitespace THEN i ELSE SkipLeft(s, i + 1)

RECURSIVE SkipRight(_, _)
\* The last position up to i that holds no whitespace (0 if none).
SkipRight(s, i) ==
    IF i < 1 \/ s[i] \notin Whitespace THEN i ELSE SkipRight(s, i - 1)

\* str.strip()
Strip(s) == SubSeq(s, SkipLeft(s, 1), SkipRight(s, Len(s)))

RECURSIVE SplitFrom(_, _, _)
\* The pieces of s from position from on, cut at each occurrence of sep.
SplitFrom(s, sep, from) ==
    LET cuts == {i \in from..Len(s) : s[i] = sep}
    IN  IF cuts = {} THEN <<SubSeq(s, from, Len(s))>>
        ELSE LET c == CHOOSE i \in cuts : \A j \in cuts : i <= j
             IN  <<SubSeq(s, from, c - 1)>> \o SplitFrom(s, sep, c + 1)

\* str.split(sep) for a one-character separator
Split(s, sep) == SplitFrom(s, sep, 1)

RECURSIVE Join(_, _)
\* sep.join(parts)
Join(parts, sep) ==
    IF parts = <<>> THEN <<>>
    ELSE IF Len(parts) = 1 THEN parts[1]
    ELSE parts[1] \o <<sep>> \o Join(Tail(parts), sep)

\* The lower-case form of the letters that have one, as str.lower() gives it:
\* a sequence, because U+0130 becomes two code points.
LowerTable ==
    [c \in {"A", "B", "C", "D", "E", "G", "I", "J", "L", "N", "O", "P", "R", "S",
            "T", "V", "X", DotI} |->
        CASE c = "A" -> <<"a">> [] c = "B" -> <<"b">> [] c = "C" -> <<"c">>
          [] c = "D" -> <<"d">> [] c = "E" -> <<"e">> [] c = "G" -> <<"g">>
          [] c = "I" -> <<"i">> [] c = "J" -> <<"j">> [] c = "L" -> <<"l">>
          [] c = "N" -> <<"n">> [] c = "O" -> <<"o">> [] c = "P" -> <<"p">>
          [] c = "R" -> <<"r">> [] c = "S" -> <<"s">> [] c = "T" -> <<"t">>
          [] c = "V" -> <<"v">> [] c = "X" -> <<"x">>
          [] c = DotI -> <<"i", CombDot>>]

\* str.lower() on one character
LowerChar(c) == IF c \in DOMAIN LowerTable THEN LowerTable[c] ELSE <<c>>

RECURSIVE LowerRange(_, _, _)
LowerRange(s, i, j) ==
    IF i > j THEN <<>>
    ELSE IF i = j THEN LowerChar(s[i])
    ELSE LET m == (i + j) \div 2
         IN  LowerRange(s, i, m) \o LowerRange(s, m + 1, j)

\* str.lower()
Lower(s) == LowerRange(s, 1, Len(s))

\* needle in hay
Contains(hay, needle) ==
    \E i \in 1..(Len(hay) - Len(needle) + 1) :
        \A k \in 1..Len(needle) : hay[i + k - 1] = needle[k]

----------------------------------------------------------------------------
(* re.compile(pattern, re.I).search(value): a pattern is a sequence of     *)
(* character sets, one per position.                                       *)

ReSearch(pattern, value) ==
    \E i \in 1..(Len(value) - Len(pattern) + 1) :
        \A k \in 1..Len(pattern) : LowerChar(value[i + k - 1])[1] \in pattern[k]

Lit(s) == [k \in 1..Len(s) |-> {s[k]}]

W_job == <<"j", "o", "b">>

W_description == <<"d", "e", "s", "c", "r", "i", "p", "t", "i", "o", "n">>

W_detail == <<"d", "e", "t", "a", "i", "l">>

W_posting == <<"p", "o", "s", "t", "i", "n", "g">>

W_javascript == <<"j", "a", "v", "a", "s", "c", "r", "i", "p", "t">>

\* r'job[-_]description'
ReJobDescription == Lit(W_job) \o <<{"-", "_"}>> \o Lit(W_description)

\* r'description'
ReDescription == Lit(W_description)

\* r'job[-_]detail'
ReJobDetail == Lit(W_job) \o <<{"-", "_"}>> \o Lit(W_detail)

\* r'posting'
RePosting == Lit(W_posting)

----------------------------------------------------------------------------
(* The texts the documents are built from, by name. *)

X(n) == Rep("x", n)

Text_JavaScript == <<"J", "a", "v", "a", "S", "c", "r", "i", "p", "t">>

Text_JAVASCRIPT == <<"J", "A", "V", "A", "S", "C", "R", "I", "P", "T">>

TextLib ==
    [ empty     |-> <<>>,
      blank     |-> <<" ", NL, " ", "\t", NL>>,
      x50       |-> X(50),
      x199      |-> X(199),
      x200      |-> X(200),
      x99       |-> X(99),
      x100      |-> X(100),
      \* 212 characters that clean to 100 + 1 + 99 = 200
      padded200 |-> <<" ", "\t">> \o X(100) \o <<" ", NL, " ", "\r", NL, "\t">>
                       \o X(48) \o <<" ">> \o X(50) \o <<" ", NL>>,
      \* 211 characters that clean to 100 + 1 + 98 = 199
      padded199 |-> <<" ", "\t">> \o X(100) \o <<" ", NL, " ", "\r", NL, "\t">>
                       \o X(48) \o <<" ">> \o X(49) \o <<" ", NL>>,
      \* "Please enable JavaScript" shell, long enough to pass the length test
      jsEarly   |-> X(7) \o <<" ">> \o Text_JavaScript \o <<" ">> \o X(200),
      \* 1000 characters, upper-case word at the start
      jsUpper   |-> Text_JAVASCRIPT \o X(990),
      \* the word ends at character 500
      jsEnd500  |-> X(490) \o W_javascript,
      \* the word ends at character 501
      jsEnd501  |-> X(491) \o W_javascript \o X(9),
      \* the word ends at character 500 of the text, 501 of its lower()
      jsDotI    |-> <<DotI>> \o X(489) \o Text_JavaScript,
      \* the word broken by a line break
      jsBroken  |-> <<"j", "a", "v", "a", NL, "s", "c", "r", "i", "p", "t">> \o X(200),
      \* distinct viable texts, one per node position
      long1     |-> <<"1">> \o X(200),
      long2     |-> <<"2">> \o X(200),
      long3     |-> <<"3">> \o X(200),
      long4     |-> <<"4">> \o X(200) ]

TextKeys == DOMAIN TextLib

LongKey == <<"long1", "long2", "long3", "long4">>

VariedKeys == TextKeys \ {"long1", "long2", "long3", "long4", "x99", "x100"}

SmallKeys == {"empty", "blank", "x99", "x100"}

----------------------------------------------------------------------------
(* Parsed documents: BeautifulSoup(response.content, 'html.parser').        *)

C_job_description == W_job \o <<"-">> \o W_description

C_Job_Description == <<"J", "o", "b", "_", "D", "E", "S", "C", "R", "I", "P", "T", "I", "O", "N">>

C_card == <<"c", "a", "r", "d">>

C_job_detail == W_job \o <<"-">> \o W_detail

C_job_detail_us == W_job \o <<"_">> \o W_detail

NoAttr == <<>>

Elem(tag, class, id) == [tag |-> tag, class |-> class, id |-> id]

\* The elements documents of any size are made of: divs that match a
\* selector through class or through id, the fallback containers, and a tag
\* that is stripped.
Kinds ==
    { Elem("div", <<C_job_description>>, NoAttr),
      Elem("div", <<W_description>>, NoAttr),
      Elem("div", <<C_job_detail>>, NoAttr),
      Elem("div", <<W_posting>>, NoAttr),
      Elem("div", NoAttr, C_job_description),
      Elem("div", NoAttr, W_description),
      Elem("div", NoAttr, C_job_detail_us),
      Elem("div", NoAttr, W_posting),
      Elem("main", NoAttr, NoAttr),
      Elem("article", NoAttr, NoAttr),
      Elem("body", NoAttr, NoAttr),
      Elem("header", NoAttr, NoAttr) }

\* Further elements, met in documents of two elements: a class of two
\* tokens in another letter case, a div and a non-div that match no
\* selector for a div, and the other tags that are stripped.
MoreKinds ==
    { Elem("div", <<C_card, C_Job_Description>>, NoAttr),
      Elem("div", <<C_card>>, NoAttr),
      Elem("span", <<C_job_description>>, NoAttr),
      Elem("script", NoAttr, NoAttr),
      Elem("style", NoAttr, NoAttr),
      Elem("nav", NoAttr, NoAttr),
      Elem("footer", NoAttr, NoAttr) }

Node(kind, parent, text) ==
    [tag |-> kind.tag, class |-> kind.class, id |-> kind.id,
     parent |-> parent, text |-> text]

\* Largest number of elements in a document.
MaxNodes == 2

RECURSIVE AncestorsOrSelf(_, _)
AncestorsOrSelf(doc, i) ==
    IF i = 0 THEN {} ELSE {i} \cup AncestorsOrSelf(doc, doc[i].parent)

\* Parent vectors of a tree listed in document order: each node hangs under
\* the soup or under the previous node or one of its ancestors.
IsPreorder(par) ==
    \A i \in 1..Len(par) :
        /\ par[i] \in 0..(i - 1)
        /\ i > 1 /\ par[i] # 0 => par[i] \in AncestorsOrSelf([j \in 1..Len(par) |-> [parent |-> par[j]]], i - 1)

Shapes(n) == {par \in [1..n -> 0..(n - 1)] : IsPreorder(par)}

\* Documents that vary the elements and their nesting; node i holds the i-th
\* distinct viable text.
SelDocs ==
    UNION { { [i \in 1..n |-> Node(ks[i], par[i], LongKey[i])] :
                ks \in [1..n -> Kinds], par \in Shapes(n) } : n \in 1..MaxNodes }

\* Documents of two elements, side by side or nested, one of them from
\* MoreKinds.
PairDocs ==
    { <<Node(a, 0, "long1"), Node(b, p, "long2")>> :
        a \in Kinds \cup MoreKinds, b \in MoreKinds, p \in {0, 1} }
    \cup
    { <<Node(a, 0, "long1"), Node(b, p, "long2")>> :
        a \in MoreKinds, b \in Kinds, p \in {0, 1} }

\* Documents that vary the text of one element.
TextDocs ==
    { <<Node(k, 0, t)>> :
        k \in { Elem("div", <<C_job_description>>, NoAttr),
                Elem("div", NoAttr, W_description),
                Elem("div", <<C_card>>, NoAttr),
                Elem("main", NoAttr, NoAttr),
                Elem("body", NoAttr, NoAttr) },
        t \in VariedKeys }

\* Documents whose text comes in two strings.
TwoStringDocs ==
    { <<Node(Elem("body", NoAttr, NoAttr), 0, t1), Node(k, 1, t2)>> :
        k \in { Elem("div", <<W_posting>>, NoAttr), Elem("div", <<C_card>>, NoAttr) },
        t1 \in SmallKeys, t2 \in SmallKeys }

Docs == SelDocs \cup PairDocs \cup TextDocs \cup TwoStringDocs

\* What a server sends with a status other than 200.
OtherBodies ==
    { <<>>,
      <<Node(Elem("body", NoAttr, NoAttr), 0, "x50")>>,
      <<Node(Elem("body", NoAttr, NoAttr), 0, "long1")>> }

----------------------------------------------------------------------------
(* The BeautifulSoup calls of extract_job_description_basic.  alive is the *)
(* set of nodes still in the tree.                                         *)

TextOf(doc, i) == TextLib[doc[i].text]

Subtree(doc, i) == {j \in 1..Len(doc) : i \in AncestorsOrSelf(doc, j)}

\* The members of a set of node indices, in document order.
RECURSIVE InOrder(_)
InOrder(S) ==
    IF S = {} THEN <<>>
    ELSE LET m == CHOOSE i \in S : \A j \in S : i <= j
         IN  <<m>> \o InOrder(S \ {m})

\* Mutant of StripTags: only what the comment on line 45 names.
StripTagsScriptStyle == {"script", "style"}

\* soup(['script', 'style', 'nav', 'header', 'footer'])
StripTags == {"script", "style", "nav", "header", "footer"}

FindAllTags(doc, tags) == InOrder({i \in 1..Len(doc) : doc[i].tag \in tags})

RECURSIVE DecomposeEach(_, _, _)
\* for script in found: script.decompose()
DecomposeEach(doc, found, alive) ==
    IF found = <<>> THEN alive
    ELSE DecomposeEach(doc, Tail(found), alive \ Subtree(doc, Head(found)))

AfterStrip(doc) == DecomposeEach(doc, FindAllTags(doc, StripTags), 1..Len(doc))

\* A class is a list of tokens: a token matches, or the tokens joined by spaces.
ClassMatches(node, re) ==
    /\ node.class # NoAttr
    /\ \/ \E k \in 1..Len(node.class) : ReSearch(re, node.class[k])
       \/ ReSearch(re, Join(node.class, " "))

IdMatches(node, re) == node.id # NoAttr /\ ReSearch(re, node.id)

AttrMatches(node, selector) ==
    IF selector.attr = "class" THEN ClassMatches(node, selector.re)
    ELSE IdMatches(node, selector.re)

\* Mutant of common_selectors: description tried before job-description.
common_selectors_description_first ==
    << [attr |-> "class", re |-> ReDescription],
       [attr |-> "class", re |-> ReJobDescription],
       [attr |-> "class", re |-> ReJobDetail],
       [attr |-> "class", re |-> RePosting],
       [attr |-> "id", re |-> ReJobDescription],
       [attr |-> "id", re |-> ReDescription] >>

\* Mutant of common_selectors: each id selector right after its class selector.
common_selectors_interleaved ==
    << [attr |-> "class", re |-> ReJobDescription],
       [attr |-> "id", re |-> ReJobDescription],
       [attr |-> "class", re |-> ReDescription],
       [attr |-> "id", re |-> ReDescription],
       [attr |-> "class", re |-> ReJobDetail],
       [attr |-> "class", re |-> RePosting] >>

\* Mutant of common_selectors: posting tried before description.
common_selectors_posting_first ==
    << [attr |-> "class", re |-> ReJobDescription],
       [attr |-> "class", re |-> RePosting],
       [attr |-> "class", re |-> ReJobDetail],
       [attr |-> "class", re |-> ReDescription],
       [attr |-> "id", re |-> ReJobDescription],
       [attr |-> "id", re |-> ReDescription] >>

common_selectors ==
    << [attr |-> "class", re |-> ReJobDescription],
       [attr |-> "class", re |-> ReDescription],
       [attr |-> "class", re |-> ReJobDetail],
       [attr |-> "class", re |-> RePosting],
       [attr |-> "id", re |-> ReJobDescription],
       [attr |-> "id", re |-> ReDescription] >>

\* The first member of a set of nodes in document order; 0 is None.
First(S) == IF S = {} THEN 0 ELSE CHOOSE i \in S : \A j \in S : i <= j

\* soup.find('div', selector)
FindDiv(doc, alive, selector) ==
    First({i \in alive : doc[i].tag = "div" /\ AttrMatches(doc[i], selector)})

\* soup.find(tag)
FindTag(doc, alive, tag) == First({i \in alive : doc[i].tag = tag})

RECURSIVE TrySelectors(_, _, _)
\* for selector in common_selectors: ... if job_content: break
TrySelectors(doc, alive, k) ==
    IF k > Len(common_selectors) THEN 0
    ELSE LET found == FindDiv(doc, alive, common_selectors[k])
         IN  IF found # 0 THEN found ELSE TrySelectors(doc, alive, k + 1)

\* Mutant of Fallback: article tried before main.
FallbackArticleFirst(doc, alive) ==
    IF FindTag(doc, alive, "article") # 0 THEN FindTag(doc, alive, "article")
    ELSE IF FindTag(doc, alive, "main") # 0 THEN FindTag(doc, alive, "main")
    ELSE FindTag(doc, alive, "body")

\* soup.find('main') or soup.find('article') or soup.find('body')
Fallback(doc, alive) ==
    IF FindTag(doc, alive, "main") # 0 THEN FindTag(doc, alive, "main")
    ELSE IF FindTag(doc, alive, "article") # 0 THEN FindTag(doc, alive, "article")
    ELSE FindTag(doc, alive, "body")

\* job_content after lines 50-69; 0 when it is None
ChooseContainer(doc, alive) ==
    LET bySelector == TrySelectors(doc, alive, 1)
    IN  IF bySelector # 0 THEN bySelector ELSE Fallback(doc, alive)

\* The nodes whose strings get_text(strip=True) yields from a container
\* (0: from the soup): those that are still in the tree and not blank.
StringsOf(doc, alive, c) ==
    LET within == IF c = 0 THEN alive ELSE Subtree(doc, c) \cap alive
    IN  InOrder({i \in within : Strip(TextOf(doc, i)) # <<>>})

\* container.get_text(separator='\n', strip=True)
GetText(doc, from) == Join([k \in 1..Len(from) |-> Strip(TextOf(doc, from[k]))], NL)

\* Mutant of CleanUp: the blank lines dropped, the others left unstripped.
CleanUpNoStrip(text) ==
    Join(SelectSeq(Split(text, NL), LAMBDA l : Strip(l) # <<>>), NL)

\* lines 78-79: the lines of text, each stripped, the empty ones dropped
CleanUp(text) ==
    LET raw   == Split(text, NL)
        lines == SelectSeq([k \in 1..Len(raw) |-> Strip(raw[k])], LAMBDA l : l # <<>>)
    IN  Join(lines, NL)

----------------------------------------------------------------------------
(* extract_job_description's test of the text, lines 94-97. *)

MinLength == 200

ScanLength == 500

\* Mutant of LooksScripted: no test of the length.
LooksScriptedNoLength(text) == Contains(Take(Lower(text), ScanLength), W_javascript)

LooksScripted(text) ==
    Len(text) < MinLength \/ Contains(Take(Lower(text), ScanLength), W_javascript)

----------------------------------------------------------------------------
(* One call of scrape_job. *)

VARIABLES
    pc,         \* where the call is
    gets,       \* number of requests.get calls made
    response,   \* the response of requests.get: its status and parsed body
    container,  \* job_content: a node, 0 for None, -1 before it is chosen
    strings,    \* the nodes whose strings get_text yielded
    content,    \* cleaned_text / content
    error,      \* the exception scrape_job raised
    files,      \* what save_job_description wrote
    returned    \* what scrape_job returned

vars == <<pc, gets, response, container, strings, content, error, files, returned>>

\* An exception is its message and, for f"Failed to fetch URL: {str(e)}",
\* the exception e it was made from.
Raised(msg, cause) == [msg |-> msg, cause |-> cause]

NoError == Raised("none", "none")

FetchFailure == "Failed to fetch URL"

ScriptRequired == "Unable to scrape - site requires JavaScript to load content."

NoResponse == [status |-> 0, doc |-> <<>>]

\* Ways requests.get raises a RequestException without a response.
TransportFailures == {"ConnectionError: DNS", "ConnectionError: refused", "Timeout"}

\* Final statuses a server answers with (requests follows redirects that
\* carry a Location itself; 300 and 304 come back as they are).
Statuses == {200, 204, 300, 304, 404, 503}

Responses ==
    { [status |-> 200, doc |-> d] : d \in Docs }
    \cup { [status |-> s, doc |-> d] : s \in Statuses \ {200}, d \in OtherBodies }

Init ==
    /\ pc = "start"
    /\ gets = 0
    /\ response = NoResponse
    /\ container = -1
    /\ strings = <<>>
    /\ content = <<>>
    /\ error = NoError
    /\ files = <<>>
    /\ returned = <<>>

\* line 39: requests.get(url, headers=headers, timeout=10) returns
RequestsGetReturns ==
    /\ pc = "start"
    /\ \E r \in Responses : response' = r
    /\ gets' = gets + 1
    /\ pc' = "got_response"
    /\ UNCHANGED <<container, strings, content, error, files, returned>>

\* line 39 raises; lines 101-102 turn it into the fetch failure
RequestsGetRaises ==
    /\ pc = "start"
    /\ \E e \in TransportFailures : error' = Raised(FetchFailure, e)
    /\ gets' = gets + 1
    /\ pc' = "failed"
    /\ UNCHANGED <<response, container, strings, content, files, returned>>

\* Response.raise_for_status() raises HTTPError for 4xx and 5xx
IsErrorStatus(status) == 400 <= status /\ status < 600

\* line 40 passes
RaiseForStatusPasses ==
    /\ pc = "got_response"
    /\ ~IsErrorStatus(response.status)
    /\ pc' = "response_ok"
    /\ UNCHANGED <<gets, response, container, strings, content, error, files, returned>>

\* line 40 raises; lines 101-102 turn it into the fetch failure
RaiseForStatusRaises ==
    /\ pc = "got_response"
    /\ IsErrorStatus(response.status)
    /\ error' = Raised(FetchFailure, "HTTPError")
    /\ pc' = "failed"
    /\ UNCHANGED <<gets, response, container, strings, content, files, returned>>

\* lines 43-81: the rest of extract_job_description_basic
ExtractBasic ==
    /\ pc = "response_ok"
    /\ LET doc   == response.doc
           alive == AfterStrip(doc)
           c     == ChooseContainer(doc, alive)
           from  == StringsOf(doc, alive, c)
       IN  /\ container' = c
           /\ strings' = from
           /\ content' = CleanUp(GetText(doc, from))
    /\ pc' = "basic_returned"
    /\ UNCHANGED <<gets, response, error, files, returned>>

\* Mutant of ViabilityFails: the failure is noted and the call carries on.
ViabilityFailsCarriesOn ==
    /\ pc = "basic_returned"
    /\ LooksScripted(content)
    /\ error' = Raised(ScriptRequired, "none")
    /\ pc' = "extracted"
    /\ UNCHANGED <<gets, response, container, strings, content, files, returned>>

\* lines 94-97: the text fails the test
ViabilityFails ==
    /\ pc = "basic_returned"
    /\ LooksScripted(content)
    /\ error' = Raised(ScriptRequired, "none")
    /\ pc' = "failed"
    /\ UNCHANGED <<gets, response, container, strings, content, files, returned>>

\* line 99: extract_job_description returns content
ViabilityPasses ==
    /\ pc = "basic_returned"
    /\ ~LooksScripted(content)
    /\ pc' = "extracted"
    /\ UNCHANGED <<gets, response, container, strings, content, error, files, returned>>

\* line 185: save_job_description writes the file
SaveJobDescription ==
    /\ pc = "extracted"
    /\ files' = Append(files, content)
    /\ pc' = "saved"
    /\ UNCHANGED <<gets, response, container, strings, content, error, returned>>

\* line 186: scrape_job returns (file_path, content)
ScrapeJobReturns ==
    /\ pc = "saved"
    /\ returned' = <<content>>
    /\ pc' = "done"
    /\ UNCHANGED <<gets, response, container, strings, content, error, files>>

Next ==
    \/ RequestsGetReturns
    \/ RequestsGetRaises
    \/ RaiseForStatusPasses
    \/ RaiseForStatusRaises
    \/ ExtractBasic
    \/ ViabilityFails
    \/ ViabilityPasses
    \/ SaveJobDescription
    \/ ScrapeJobReturns

Spec == Init /\ [][Next]_vars

----------------------------------------------------------------------------
(* Vocabulary of the properties, stated on the document as it was fetched. *)

Doc == response.doc

\* extract_job_description_basic has chosen its container and built the text.
Chosen == container # -1

\* extract_job_description has returned the text.
Succeeded == pc \in {"extracted", "saved", "done"}

NonContentTags == {"script", "style", "nav", "header", "footer"}

\* Node i is not in the subtree of a script, style, nav, header or footer.
Outside(i) == \A a \in AncestorsOrSelf(Doc, i) : Doc[a].tag \notin NonContentTags

Kept == {i \in 1..Len(Doc) : Outside(i)}

KeptDivs == {i \in Kept : Doc[i].tag = "div"}

Earliest(S) == IF S = {} THEN 0 ELSE CHOOSE i \in S : \A j \in S : i <= j

\* The cleaned text of the subtree of node c (of the whole document for 0).
CleanedTextOf(c) == CleanUp(GetText(Doc, StringsOf(Doc, Kept, c)))

\* "javascript", in any letter case, within the first 500 characters of t.
MentionsJavascriptEarly(t) == Contains(Lower(Take(t, 500)), W_javascript)

\* The four patterns (a)-(d) in their order.
Patterns == <<ReJobDescription, ReDescription, ReJobDetail, RePosting>>

InClass(i, re) == ClassMatches(Doc[i], re)

InClassOrId(i, re) == ClassMatches(Doc[i], re) \/ IdMatches(Doc[i], re)

----------------------------------------------------------------------------
JobDescriptionDiv == Earliest({i \in KeptDivs : InClass(i, ReJobDescription)})

(* C1: when the first div outside the stripped subtrees whose class         *)
(* contains job-description has a cleaned text of at least 200 characters   *)
(* with no "javascript" in its first 500, extraction succeeds with exactly  *)
(* that div's cleaned text, whatever other elements the document has.       *)
C1_JobDescriptionDivWins ==
    (Chosen /\ JobDescriptionDiv # 0) =>
        LET text == CleanedTextOf(JobDescriptionDiv)
        IN  (Len(text) >= 200 /\ ~MentionsJavascriptEarly(text)) =>
                /\ container = JobDescriptionDiv
                /\ content = text
                /\ pc # "failed"
                /\ pc = "done" => returned = <<text>>

\* A div with class description comes first, the job-description div second,
\* and the second one's text is returned.
C1_Witness ==
    /\ pc = "done"
    /\ Len(Doc) = 2
    /\ Doc[1].tag = "div" /\ InClass(1, ReDescription) /\ ~InClass(1, ReJobDescription)
    /\ JobDescriptionDiv = 2
    /\ returned = <<CleanedTextOf(2)>>
    /\ returned # <<CleanedTextOf(1)>>

----------------------------------------------------------------------------
HighestLevelPresent ==
    Earliest({k \in 1..4 : \E i \in KeptDivs : InClassOrId(i, Patterns[k])})

(* C2, as claimed: the container is the first div, in document order, that *)
(* matches the highest-priority pattern present, a div matching a pattern   *)
(* when its class or its id contains it.                                    *)
C2_ClassOrIdPriority ==
    (Chosen /\ HighestLevelPresent # 0) =>
        container = Earliest({i \in KeptDivs : InClassOrId(i, Patterns[HighestLevelPresent])})

MatchesSelector(i, k) ==
    CASE k = 1 -> InClass(i, ReJobDescription)
      [] k = 2 -> InClass(i, ReDescription)
      [] k = 3 -> InClass(i, ReJobDetail)
      [] k = 4 -> InClass(i, RePosting)
      [] k = 5 -> IdMatches(Doc[i], ReJobDescription)
      [] k = 6 -> IdMatches(Doc[i], ReDescription)

FirstSelectorPresent ==
    Earliest({k \in 1..6 : \E i \in KeptDivs : MatchesSelector(i, k)})

(* C2, amended: the container is the first div, in document order, that    *)
(* matches the first of six selectors that any div matches: class          *)
(* job-description, class description, class job-detail, class posting, id *)
(* job-description, id description.  Every class selector comes before     *)
(* every id selector, and an id that contains only job-detail or posting   *)
(* matches no selector.                                                    *)
C2_ClassBeforeId ==
    Chosen =>
        IF FirstSelectorPresent # 0
        THEN container = Earliest({i \in KeptDivs : MatchesSelector(i, FirstSelectorPresent)})
        ELSE container = 0 \/ Doc[container].tag # "div"

\* A div with id job-description comes first and a div with class posting
\* second: the second is the container.
C2_Witness ==
    /\ Chosen
    /\ Len(Doc) = 2
    /\ Doc[1].tag = "div" /\ IdMatches(Doc[1], ReJobDescription) /\ Doc[1].class = NoAttr
    /\ Doc[2].tag = "div" /\ InClass(2, RePosting) /\ Doc[2].parent = 0
    /\ container = 2

----------------------------------------------------------------------------
(* C3: when the cleaned text is shorter than 200 characters, the call      *)
(* fails with the script-required failure and returns and writes nothing,  *)
(* whichever way the container was chosen.                                 *)
C3_ShortTextFails ==
    (Chosen /\ Len(content) < 200) =>
        /\ pc \in {"basic_returned", "failed"}
        /\ pc = "failed" => error.msg = ScriptRequired
        /\ returned = <<>>
        /\ files = <<>>

\* 199 characters in a div chosen by a selector.
C3_Witness ==
    /\ pc = "failed"
    /\ error.msg = ScriptRequired
    /\ container > 0
    /\ Doc[container].tag = "div"
    /\ Len(content) = 199

----------------------------------------------------------------------------
(* C4, as claimed: when the cleaned text has 200 characters or more and    *)
(* its first 500 characters contain "javascript" in any letter case, the   *)
(* call fails with the script-required failure.                            *)
C4_EarlyJavascriptFails ==
    (Chosen /\ Len(content) >= 200 /\ MentionsJavascriptEarly(content)) =>
        /\ pc \in {"basic_returned", "failed"}
        /\ pc = "failed" => error.msg = ScriptRequired

----------------------------------------------------------------------------
DescriptionDivs == {i \in KeptDivs : InClass(i, ReDescription)}

PostingDivs == {i \in KeptDivs : InClass(i, RePosting)}

(* C5: when, outside the stripped subtrees, one div has description in its *)
(* class and another has posting, and no div has job-description in its    *)
(* class or id, the container is the description div, in either order.     *)
C5_DescriptionBeforePosting ==
    ( /\ Chosen
      /\ DescriptionDivs # {}
      /\ PostingDivs # {}
      /\ \A i \in KeptDivs : ~InClassOrId(i, ReJobDescription) ) =>
        container = Earliest(DescriptionDivs)

\* The posting div comes first and the description div is chosen.
C5_Witness ==
    /\ Chosen
    /\ Len(Doc) = 2
    /\ PostingDivs = {1}
    /\ DescriptionDivs = {2}
    /\ container = 2

----------------------------------------------------------------------------
NoPatternMatch == \A i \in KeptDivs : \A k \in 1..4 : ~InClassOrId(i, Patterns[k])

KeptWithTag(tag) == {i \in Kept : Doc[i].tag = tag}

(* C6: when no div outside the stripped subtrees matches any of the four   *)
(* patterns through its class or id, the container is the first main       *)
(* element; the first article when there is no main; the first body when   *)
(* there is neither; and the text built is that container's cleaned text.  *)
C6_FallbackOrder ==
    (Chosen /\ NoPatternMatch) =>
        /\ container =
              IF KeptWithTag("main") # {} THEN Earliest(KeptWithTag("main"))
              ELSE IF KeptWithTag("article") # {} THEN Earliest(KeptWithTag("article"))
              ELSE Earliest(KeptWithTag("body"))
        /\ content = CleanedTextOf(container)
        /\ pc = "done" => returned = <<CleanedTextOf(container)>>

\* An article comes first and a main second, side by side: the text of the
\* main is returned.
C6_Witness ==
    /\ pc = "done"
    /\ Len(Doc) = 2
    /\ Doc[1].tag = "article"
    /\ Doc[2].tag = "main" /\ Doc[2].parent = 0
    /\ container = 2
    /\ returned = <<CleanedTextOf(2)>>
    /\ returned # <<CleanedTextOf(1)>>

----------------------------------------------------------------------------
TrimmedLine(l) == l # <<>> /\ l[1] \notin Whitespace /\ l[Len(l)] \notin Whitespace

(* C7: whenever extraction succeeds the text is not empty, and each of its *)
(* lines is not empty and neither begins nor ends with whitespace.         *)
C7_NormalizedText ==
    Succeeded =>
        LET lines == Split(content, NL)
        IN  /\ content # <<>>
            /\ \A k \in 1..Len(lines) : TrimmedLine(lines[k])

\* A text with padded lines and blank lines between them was cleaned to two
\* lines of 200 characters in all.
C7_Witness ==
    /\ pc = "done"
    /\ Len(Doc) = 1
    /\ Doc[1].text = "padded200"
    /\ Len(content) = 200
    /\ Len(Split(content, NL)) = 2
    /\ returned = <<content>>

----------------------------------------------------------------------------
C8_Step ==
    /\ gets' <= 1
    /\ gets' # gets => pc = "start"
    /\ pc = "failed" => UNCHANGED vars
    /\ pc' = "failed" => error' # NoError /\ files' = <<>> /\ returned' = <<>>
    /\ files' # files => pc = "extracted" /\ error = NoError /\ files' = <<content>>
    /\ files' # <<>> => error' = NoError
    /\ returned' # <<>> => files' = <<content'>> /\ returned' = <<content'>>

(* C8: every step of a call keeps the number of GETs at one at most; once  *)
(* the call has failed nothing more happens: no further GET, no file, no   *)
(* text returned; and the file is written only right after extraction has  *)
(* succeeded, with the text extracted.                                     *)
C8_FailuresAreTerminal == [][C8_Step]_vars

\* The call failed the viability test after its one GET, and left nothing.
C8_Witness ==
    /\ pc = "failed"
    /\ error.msg = ScriptRequired
    /\ gets = 1
    /\ files = <<>>
    /\ returned = <<>>

----------------------------------------------------------------------------
FetchFailed ==
    /\ gets = 1
    /\ \/ response = NoResponse
       \/ ~(200 <= response.status /\ response.status < 300)

(* C9, as claimed: a GET that fails in transport or is answered with a     *)
(* status outside 200-299 makes the call fail with the fetch failure, and  *)
(* a call that fails on a document fetched with a 2xx status fails with    *)
(* the script-required failure.                                            *)
C9_FailuresNeverCrossed ==
    /\ (FetchFailed /\ pc # "got_response") =>
            pc = "failed" /\ error.msg = FetchFailure
    /\ (gets = 1 /\ ~FetchFailed /\ pc = "failed") => error.msg = ScriptRequired

----------------------------------------------------------------------------
Mark(i) == <<TextLib[Doc[i].text][1]>>

IsMarked(i) == \E k \in 1..Len(LongKey) : Doc[i].text = LongKey[k]

(* C10: the container is never inside the subtree of a script, style, nav, *)
(* header or footer element, no string of such a subtree is among those    *)
(* the text is built from, and the mark of no node of such a subtree       *)
(* occurs in the text.                                                     *)
C10_NonContentRemoved ==
    Chosen =>
        /\ container = 0 \/ Outside(container)
        /\ \A k \in 1..Len(strings) : Outside(strings[k])
        /\ content = CleanUp(GetText(Doc, strings))
        /\ \A i \in 1..Len(Doc) : (~Outside(i) /\ IsMarked(i)) => ~Contains(content, Mark(i))

\* A div with class job-description inside a header: it is not the
\* container and its string is not used.
C10_Witness ==
    /\ Chosen
    /\ Len(Doc) = 2
    /\ Doc[1].tag = "header"
    /\ Doc[2].tag = "div" /\ InClass(2, ReJobDescription) /\ Doc[2].parent = 1
    /\ container # 2
    /\ strings = <<>>

====
